---- MODULE Spec2Model ----
(***************************************************************************)
(* Model of the two command-line programs of the repository:               *)
(*   - chunk_text, process_pdf           (src/notenvektorierung.py)        *)
(*   - extract_search_keywords, web_search, chat_completion, run           *)
(*                                       (src/kiunimainzqwenvscode.py)     *)
(*                                                                         *)
(* A text handed to chunk_text is represented by the token sequence the    *)
(* tokenizer encodes it to; a chunk is represented by the token slice it   *)
(* is decoded from, together with the loop's start/end offsets.            *)
(***************************************************************************)
EXTENDS Integers, Sequences, FiniteSets, TLC

VARIABLES
    tokens,      \* chunk_text: encoder.encode(text)
    max_tokens,  \* chunk_text: parameter
    overlap,     \* chunk_text: parameter
    start,       \* chunk_text: loop variable
    chunks,      \* chunk_text: result list
    pc,          \* chunk_text: position in the function
    question,    \* extract_search_keywords: parameter
    queries,     \* extract_search_keywords: returned list
    kpc,         \* extract_search_keywords: position in the function
    klocals,     \* extract_search_keywords: topic_prefix, topic_words, locations
    ppc,         \* process_pdf: position in the function
    pdf_path,    \* process_pdf: parameter
    embeddings,  \* process_pdf: list returned by get_embeddings
    collection,  \* the ChromaDB collection: stored records, in insertion order
    add_calls,   \* number of collection.add calls made
    tavily,      \* JGUKIChat.tavily is set (a Tavily client is configured)
    ddgs,        \* JGUKIChat.ddgs is set (DuckDuckGo is available)
    conversation,        \* JGUKIChat.conversation
    current_model,       \* JGUKIChat.current_model
    reasoning_effort,    \* JGUKIChat.reasoning_effort
    last_search_method,  \* JGUKIChat.last_search_method ("None" for None)
    search_log,  \* calls of web_search and of the two backends, in call order
    ws_query,    \* web_search: parameter of the last call
    ws_result,   \* web_search: value returned by the last call
    wpc,         \* web_search: position when called on its own
    user_input,  \* run: the line read at the prompt
    effect,      \* run: what the dispatcher did with user_input
    response,    \* run: full_response, the text chat_completion yielded
    total_pages, \* Pager: number of pages
    current_page,\* Pager.show: index of the page shown
    char,        \* Pager.show: the key read last
    gpc,         \* Pager.show: position in the function
    cpc          \* run: position ("prompt", "exited", "crashed")

chunkVars == <<tokens, max_tokens, overlap, start, chunks, pc>>
kwVars == <<question, queries, kpc, klocals>>
pdfVars == <<ppc, pdf_path, embeddings, collection, add_calls>>
searchVars == <<tavily, ddgs, last_search_method, search_log, ws_query, ws_result, wpc>>
pagerVars == <<total_pages, current_page, char, gpc>>
chatVars == <<conversation, current_model, reasoning_effort, user_input, effect,
              response, cpc>>
vars == <<tokens, max_tokens, overlap, start, chunks, pc, question, queries, kpc, klocals,
          ppc, pdf_path, embeddings, collection, add_calls,
          tavily, ddgs, last_search_method, search_log, ws_query, ws_result, wpc,
          conversation, current_model, reasoning_effort, user_input, effect, response,
          cpc, total_pages, current_page, char, gpc>>

----------------------------------------------------------------------------
(* Bounds of the explored inputs *)

MaxN == 5          \* longest enumerated token sequence
MaxToken == 1      \* token ids are 0..MaxToken
MaxParam == 4      \* largest enumerated max_tokens / overlap
MaxChunks == MaxN + 2   \* cut-off for runs of the loop that never return

(* Defaults of chunk_text's signature *)
DefaultMaxTokens == 256
DefaultOverlap == 64

Min(a, b) == IF a <= b THEN a ELSE b
Max(a, b) == IF a >= b THEN a ELSE b

----------------------------------------------------------------------------
(* chunk_text *)

\* Python's tokens[lo:hi] for a list of length Len(s): negative indices count
\* from the end, indices are clamped to 0..Len(s), an empty range is [].
PyIndex(i, n) == IF i < 0 THEN Max(i + n, 0) ELSE Min(i, n)
PySlice(s, lo, hi) == SubSeq(s, PyIndex(lo, Len(s)) + 1, PyIndex(hi, Len(s)))

\* total_tokens = len(tokens)
total_tokens == Len(tokens)

\* if total_tokens <= max_tokens: return [encoder.decode(tokens)]
IsSingleChunkNever(n, mt) == FALSE
IsSingleChunk(n, mt) == n <= mt

\* end = min(start + max_tokens, total_tokens)
SpanEndOffByOne(s, mt, n) == Min(s + mt + 1, n)
SpanEnd(s, mt, n) == Min(s + mt, n)

\* step = max_tokens - overlap
StepNoOverlap(mt, ov) == mt
StepPlusOverlap(mt, ov) == mt + ov
StepBackward(mt, ov) == ov - mt
StepShort(mt, ov) == mt - ov - 1
Step(mt, ov) == mt - ov

\* encoder.decode(tokens[lo:hi]), kept with the offsets it was cut at
Chunk(lo, hi) == [start |-> lo, end |-> hi, tokens |-> PySlice(tokens, lo, hi)]

\* lines 75-86: encode, early return for a short text, else enter the loop
ChunkEntry ==
    /\ pc = "entry"
    /\ IF IsSingleChunk(total_tokens, max_tokens)
       THEN /\ chunks' = <<[start |-> 0, end |-> total_tokens, tokens |-> tokens]>>
            /\ pc' = "returned"
            /\ start' = start
       ELSE /\ start' = 0
            /\ pc' = "loop"
            /\ chunks' = chunks
    /\ UNCHANGED <<tokens, max_tokens, overlap>>
    /\ UNCHANGED <<kwVars, pagerVars, pdfVars, searchVars, chatVars>>

\* lines 87-100: one pass through the body of the while loop
LoopIter ==
    /\ pc = "loop"
    /\ start < total_tokens
    /\ Len(chunks) < MaxChunks
    /\ LET end == SpanEnd(start, max_tokens, total_tokens)
       IN /\ chunks' = Append(chunks, Chunk(start, end))
          /\ IF end = total_tokens
             THEN /\ pc' = "returned"
                  /\ start' = start
             ELSE /\ pc' = "loop"
                  /\ start' = start + Step(max_tokens, overlap)
    /\ UNCHANGED <<tokens, max_tokens, overlap>>
    /\ UNCHANGED <<kwVars, pagerVars, pdfVars, searchVars, chatVars>>

\* line 87 false, line 102: the while condition fails and the list is returned
LoopExit ==
    /\ pc = "loop"
    /\ ~(start < total_tokens)
    /\ pc' = "returned"
    /\ UNCHANGED <<tokens, max_tokens, overlap, start, chunks>>
    /\ UNCHANGED <<kwVars, pagerVars, pdfVars, searchVars, chatVars>>

\* Token sequences of length 0..MaxN
TokenSeqs == UNION {[1..n -> 0..MaxToken] : n \in 0..MaxN}
ParamRange == (-1)..MaxParam

\* Longer texts chunked with the default parameters
ExampleLens == {256, 257, 300, 448, 449, 450}
ExampleTokens(n) == [i \in 1..n |-> i % (MaxToken + 1)]

ChunkInputs ==
    {[tokens |-> t, max_tokens |-> mt, overlap |-> ov] :
        t \in TokenSeqs, mt \in ParamRange, ov \in ParamRange}
    \cup
    {[tokens |-> ExampleTokens(n), max_tokens |-> DefaultMaxTokens,
      overlap |-> DefaultOverlap] : n \in ExampleLens}

\* process_pdf is not running and nothing is stored
PdfIdle ==
    /\ ppc = "idle"
    /\ pdf_path = ""
    /\ embeddings = <<>>
    /\ collection = <<>>
    /\ add_calls = 0

\* The chat client is not running
ChatIdle ==
    /\ tavily = FALSE
    /\ ddgs = FALSE
    /\ last_search_method = "None"
    /\ search_log = <<>>
    /\ ws_query = ""
    /\ ws_result = ""
    /\ wpc = "idle"
    /\ conversation = <<>>
    /\ current_model = ""
    /\ reasoning_effort = "medium"
    /\ user_input = ""
    /\ effect = "none"
    /\ response = ""
    /\ cpc = "idle"

\* lines 376-377, 394: the locals before anything is recognized
NoLocals == [topic_prefix |-> "", topic_words |-> {}, locations |-> <<>>]

\* No pager is showing
PagerIdle ==
    /\ total_pages = 1
    /\ current_page = 0
    /\ char = ""
    /\ gpc = "idle"

KwIdle ==
    /\ question = ""
    /\ queries = <<>>
    /\ kpc = "idle"
    /\ klocals = NoLocals

Init ==
    /\ \E in \in ChunkInputs :
          /\ tokens = in.tokens
          /\ max_tokens = in.max_tokens
          /\ overlap = in.overlap
    /\ start = 0
    /\ chunks = <<>>
    /\ pc = "entry"
    /\ KwIdle
    /\ PagerIdle
    /\ PdfIdle
    /\ ChatIdle

Next == ChunkEntry \/ LoopIter \/ LoopExit

Spec == Init /\ [][Next]_vars

\* The interpreter keeps executing a call that has not returned
FairSpec == Spec /\ WF_vars(Next)

----------------------------------------------------------------------------
(* Properties of chunk_text *)

ValidParams == max_tokens > 0 /\ 0 <= overlap /\ overlap < max_tokens
InvalidParams == overlap >= max_tokens \/ max_tokens <= 0
Returned == pc = "returned"
NumChunks == Len(chunks)
LastChunk == chunks[Len(chunks)]

\* Number of tokens two spans have in common
Shared(a, b) == Max(0, Min(a.end, b.end) - Max(a.start, b.start))
CeilDiv(a, b) == (a + b - 1) \div b

\* C1: with valid parameters the spans of the returned chunks, in order,
\* cover [0, N) without a gap: the first starts at 0, the last ends at N,
\* each next span starts at or before the previous span's end, every token
\* offset lies in some span, and each chunk holds the tokens of its span.
C1_Coverage ==
    (Returned /\ ValidParams) =>
        /\ NumChunks >= 1
        /\ chunks[1].start = 0
        /\ LastChunk.end = total_tokens
        /\ \A i \in 1..(NumChunks - 1) : chunks[i + 1].start <= chunks[i].end
        /\ \A k \in 0..(total_tokens - 1) :
              \E i \in 1..NumChunks : chunks[i].start <= k /\ k < chunks[i].end
        /\ \A i \in 1..NumChunks :
              /\ 0 <= chunks[i].start /\ chunks[i].end <= total_tokens
              /\ chunks[i].tokens = SubSeq(tokens, chunks[i].start + 1, chunks[i].end)

C1_Witness ==
    Returned /\ ValidParams /\ NumChunks >= 3 /\ overlap >= 1
        /\ total_tokens <= MaxN

\* C2: with overlap >= max_tokens or max_tokens <= 0 the call fails with
\* InvalidParameter before any chunk is produced and never runs the loop.
C2_InvalidParameterRaised ==
    (InvalidParams /\ pc # "entry") =>
        (pc = "InvalidParameter" /\ chunks = <<>>)

\* C3: with valid parameters the loop terminates: start strictly increases
\* on every iteration that does not stop, and a call that entered the loop
\* eventually returns with a last span ending at N.
C3_Terminates ==
    /\ [][(ValidParams /\ pc = "loop" /\ pc' = "loop") => start' > start]_vars
    /\ (ValidParams /\ pc = "loop") ~>
           (Returned /\ NumChunks >= 1 /\ LastChunk.end = total_tokens)

C3_Witness ==
    Returned /\ ValidParams /\ NumChunks >= 4 /\ start > 0
        /\ LastChunk.end = total_tokens

\* C4: with valid parameters every chunk is cut from a span of at most
\* max_tokens tokens.
C4_Bound ==
    ValidParams =>
        \A i \in 1..NumChunks :
            /\ Len(chunks[i].tokens) <= max_tokens
            /\ chunks[i].end - chunks[i].start <= max_tokens

C4_Witness ==
    /\ Returned /\ ValidParams /\ NumChunks >= 2
    /\ Len(chunks[1].tokens) = max_tokens
    /\ Len(LastChunk.tokens) < max_tokens

\* C5: with valid parameters and N > max_tokens, every pair of consecutive
\* chunks other than the last pair shares exactly `overlap` tokens: the next
\* span starts `overlap` tokens before the previous span's end.
C5_Overlap ==
    (Returned /\ ValidParams /\ total_tokens > max_tokens) =>
        \A i \in 1..(NumChunks - 2) :
            /\ chunks[i + 1].start = chunks[i].end - overlap
            /\ Shared(chunks[i], chunks[i + 1]) = overlap

C5_Witness ==
    /\ Returned /\ ValidParams /\ total_tokens > max_tokens
    /\ NumChunks >= 3 /\ overlap >= 2
    /\ Shared(chunks[1], chunks[2]) = overlap

\* C6: if N <= max_tokens (N = 0 included) exactly one chunk is returned and
\* it is the decoding of the whole token sequence.
C6_SingleChunk ==
    (Returned /\ total_tokens <= max_tokens) =>
        /\ NumChunks = 1
        /\ chunks[1].tokens = tokens
        /\ chunks[1].start = 0
        /\ chunks[1].end = total_tokens

C6_Witness ==
    Returned /\ total_tokens = 0 /\ max_tokens >= 1 /\ NumChunks = 1

\* C7: with valid parameters and N > max_tokens the number of chunks is
\* ceil((N - overlap) / step), step = max_tokens - overlap.
C7_Count ==
    (Returned /\ ValidParams /\ total_tokens > max_tokens) =>
        NumChunks = CeilDiv(total_tokens - overlap, max_tokens - overlap)

C7_Witness ==
    /\ Returned /\ ValidParams /\ total_tokens > max_tokens
    /\ NumChunks >= 3
    /\ (total_tokens - overlap) % (max_tokens - overlap) # 0

\* C8: 300 tokens with max_tokens = 256 and overlap = 64 give exactly two
\* chunks with spans [0, 256) and [192, 300), sharing 64 tokens and covering
\* the whole range.
C8_Example ==
    (Returned /\ total_tokens = 300 /\ max_tokens = 256 /\ overlap = 64) =>
        /\ NumChunks = 2
        /\ chunks[1].start = 0 /\ chunks[1].end = 256
        /\ chunks[2].start = 192 /\ chunks[2].end = 300
        /\ chunks[1].tokens = SubSeq(tokens, 1, 256)
        /\ chunks[2].tokens = SubSeq(tokens, 193, 300)
        /\ Shared(chunks[1], chunks[2]) = 64

C8_Witness ==
    Returned /\ total_tokens = 300 /\ max_tokens = 256 /\ overlap = 64
        /\ NumChunks = 2

----------------------------------------------------------------------------
(* Python string operations used by extract_search_keywords *)

Char(s, i) == SubSeq(s, i, i)

UpperLetters == "ABCDEFGHIJKLMNOPQRSTUVWXYZÄÖÜ"
LowerLetters == "abcdefghijklmnopqrstuvwxyzäöü"

\* c.isupper() for a single character
IsUpper(c) == \E i \in 1..Len(UpperLetters) : Char(UpperLetters, i) = c

\* c.lower() for a single character
LowerChar(c) ==
    IF IsUpper(c)
    THEN Char(LowerLetters, CHOOSE i \in 1..Len(UpperLetters) : Char(UpperLetters, i) = c)
    ELSE c

\* s.lower()
RECURSIVE LowerFrom(_, _)
LowerFrom(s, i) == IF i > Len(s) THEN "" ELSE LowerChar(Char(s, i)) \o LowerFrom(s, i + 1)
Lower(s) == LowerFrom(s, 1)

\* sub in s
Contains(s, sub) ==
    \E i \in 1..(Len(s) - Len(sub) + 1) : SubSeq(s, i, i + Len(sub) - 1) = sub

\* s.replace(c, r) for a single character c
RECURSIVE ReplaceFrom(_, _, _, _)
ReplaceFrom(s, c, r, i) ==
    IF i > Len(s) THEN ""
    ELSE (IF Char(s, i) = c THEN r ELSE Char(s, i)) \o ReplaceFrom(s, c, r, i + 1)
Replace(s, c, r) == ReplaceFrom(s, c, r, 1)

\* Characters str.split() and str.strip() treat as whitespace
IsSpace(c) == c \in {" ", "\t", "\n"}

\* s.split(): the maximal runs of non-whitespace characters
RECURSIVE SplitFrom(_, _, _)
SplitFrom(s, i, cur) ==
    IF i > Len(s) THEN (IF cur = "" THEN <<>> ELSE <<cur>>)
    ELSE IF IsSpace(Char(s, i))
         THEN (IF cur = "" THEN <<>> ELSE <<cur>>) \o SplitFrom(s, i + 1, "")
         ELSE SplitFrom(s, i + 1, cur \o Char(s, i))

\* s.split(" "): cuts at every single blank and keeps the empty pieces
RECURSIVE SplitBlankFrom(_, _, _)
SplitBlankFrom(s, i, cur) ==
    IF i > Len(s) THEN <<cur>>
    ELSE IF Char(s, i) = " "
         THEN <<cur>> \o SplitBlankFrom(s, i + 1, "")
         ELSE SplitBlankFrom(s, i + 1, cur \o Char(s, i))
SplitOnBlank(s) == SplitBlankFrom(s, 1, "")

Split(s) == SplitFrom(s, 1, "")

\* s.strip()
Strip(s) ==
    LET idx == {i \in 1..Len(s) : ~IsSpace(Char(s, i))}
    IN IF idx = {} THEN ""
       ELSE SubSeq(s, CHOOSE i \in idx : \A j \in idx : i <= j,
                      CHOOSE i \in idx : \A j \in idx : i >= j)

\* sep.join(ws)
RECURSIVE JoinFrom(_, _, _)
JoinFrom(ws, sep, i) ==
    IF i > Len(ws) THEN ""
    ELSE IF i = Len(ws) THEN ws[i]
    ELSE ws[i] \o sep \o JoinFrom(ws, sep, i + 1)
Join(ws, sep) == JoinFrom(ws, sep, 1)

\* list(dict.fromkeys(xs)): drops later duplicates, keeps first-occurrence order
RECURSIVE DedupFrom(_, _, _)
DedupFrom(xs, i, seen) ==
    IF i > Len(xs) THEN <<>>
    ELSE IF xs[i] \in seen THEN DedupFrom(xs, i + 1, seen)
    ELSE <<xs[i]>> \o DedupFrom(xs, i + 1, seen \cup {xs[i]})
DedupKeepsAll(xs) == xs
Dedup(xs) == DedupFrom(xs, 1, {})

----------------------------------------------------------------------------
(* extract_search_keywords *)

stopwords == {
    "wie", "was", "wer", "wo", "wann", "warum", "welche", "welcher", "welches",
    "ist", "sind", "war", "waren", "wird", "werden", "kann", "können",
    "der", "die", "das", "den", "dem", "des", "ein", "eine", "einer", "einem",
    "und", "oder", "aber", "denn", "weil", "dass", "ob", "wenn", "als",
    "zu", "zum", "zur", "von", "vom", "bei", "mit", "für", "über", "unter",
    "ich", "du", "er", "sie", "es", "wir", "ihr", "mich", "mir", "dich", "dir",
    "nicht", "kein", "keine", "keiner", "auch", "noch", "schon", "sehr",
    "bitte", "kannst", "könntest", "würdest", "sag", "sage", "erzähl", "erkläre",
    "gib", "zeig", "zeige", "finde", "such", "suche", "vergleiche", "vergleich",
    "the", "is", "are", "were", "what", "who", "where", "when", "why", "how",
    "can", "could", "would", "please", "tell", "me", "about", "find", "compare",
    "in", "im", "an", "am", "auf" }

WeatherTriggers == {"wetter", "temperatur", "regen", "weather", "klima"}
NewsTriggers == {"news", "nachrichten", "aktuell", "neuigkeiten"}
PriceTriggers == {"preis", "kosten", "price", "cost"}

\* any(w in question_lower for w in [...])
AnyInWords(triggers, s) == \E w \in triggers : \E i \in 1..Len(Split(s)) : Split(s)[i] = w
AnyIn(triggers, s) == \E w \in triggers : Contains(s, w)

TopicNewsFirst(q) ==
    LET question_lower == Lower(q)
    IN IF AnyIn(NewsTriggers, question_lower) THEN "news"
       ELSE IF AnyIn(WeatherTriggers, question_lower) THEN "weather"
       ELSE IF AnyIn(PriceTriggers, question_lower) THEN "price"
       ELSE ""

\* lines 375-387: the recognized topic, "" when none
Topic(q) ==
    LET question_lower == Lower(q)
    IN IF AnyIn(WeatherTriggers, question_lower) THEN "weather"
       ELSE IF AnyIn(NewsTriggers, question_lower) THEN "news"
       ELSE IF AnyIn(PriceTriggers, question_lower) THEN "price"
       ELSE ""

topic_prefix(q) ==
    CASE Topic(q) = "weather" -> "Wetter heute"
      [] Topic(q) = "news" -> "News aktuell"
      [] Topic(q) = "price" -> "Preis aktuell"
      [] OTHER -> ""

topic_words(q) ==
    CASE Topic(q) = "weather" -> WeatherTriggers \cup {"wie", "ist", "das"}
      [] Topic(q) = "news" -> NewsTriggers
      [] Topic(q) = "price" -> PriceTriggers
      [] OTHER -> {}

CleanNoCommaPad(q) ==
    Replace(Replace(Replace(q, "?", ""), "!", ""), ".", "")

\* line 390
clean_question(q) ==
    Replace(Replace(Replace(Replace(q, ",", " , "), "?", ""), "!", ""), ".", "")

\* line 391
original_words(q) == Split(clean_question(q))

\* line 402: the word continues a location phrase
IsLocationWordAnyTopic(word, tw) ==
    /\ IsUpper(Char(word, 1))
    /\ Lower(word) \notin stopwords
IsLocationWord(word, tw) ==
    /\ IsUpper(Char(word, 1))
    /\ Lower(word) \notin stopwords
    /\ Lower(word) \notin tw

\* lines 394-410: the loop over the words, current_location flushed at the end
RECURSIVE ScanWords(_, _, _, _, _)
ScanWords(ws, i, current_location, locations, tw) ==
    LET flushed == IF current_location # <<>>
                   THEN Append(locations, Join(current_location, " "))
                   ELSE locations
    IN IF i > Len(ws) THEN flushed
       ELSE IF ws[i] = "," THEN ScanWords(ws, i + 1, <<>>, flushed, tw)
       ELSE IF IsLocationWord(ws[i], tw)
            THEN ScanWords(ws, i + 1, Append(current_location, ws[i]), locations, tw)
            ELSE ScanWords(ws, i + 1, <<>>, flushed, tw)

NonBlank(loc) == Strip(loc) # ""

\* lines 394-413
locations(q) == 
    Dedup(SelectSeq(ScanWords(original_words(q), 1, <<>>, <<>>, topic_words(q)), NonBlank))

\* line 427
IsKeywordCaseSensitive(w) == w \notin stopwords /\ Len(w) > 1 /\ w # ","
IsKeyword(w) == Lower(w) \notin stopwords /\ Len(w) > 1 /\ w # ","
keywords(q) == SelectSeq(original_words(q), IsKeyword)

\* line 431
FallbackCleaned(q) == Strip(clean_question(q))
Fallback(q) == Strip(Replace(q, "?", ""))

\* line 402 evaluates word[0]: IndexError on an empty word other than ","
RaisesIndexError(q) ==
    \E i \in 1..Len(original_words(q)) : Len(original_words(q)[i]) = 0

\* line 417
PrefixedNoSpace(prefix, locs) == [i \in 1..Len(locs) |-> prefix \o locs[i]]
Prefixed(prefix, locs) == [i \in 1..Len(locs) |-> prefix \o " " \o locs[i]]

\* lines 421-424: the query for a single location
SingleQueryNoTemplate(prefix, loc) == prefix \o " " \o loc
SingleQuery(prefix, loc) ==
    IF Contains(prefix, "Wetter")
    THEN "Wetter " \o loc \o " aktuell heute"
    ELSE prefix \o " " \o loc

\* lines 415-431: the returned list

ExtractResult(q) ==
    LET locs == locations(q)
        prefix == topic_prefix(q)
    IN IF Len(locs) >= 2 /\ prefix # "" THEN Prefixed(prefix, locs)
       ELSE IF Len(locs) = 1 /\ prefix # ""
            THEN <<SingleQuery(prefix, locs[1])>>
       ELSE IF keywords(q) # <<>> THEN <<Join(keywords(q), " ")>>
       ELSE <<Fallback(q)>>

\* One call of extract_search_keywords(question)
ExtractSearchKeywords ==
    /\ kpc = "call"
    /\ IF RaisesIndexError(question)
       THEN /\ kpc' = "raised"
            /\ queries' = queries
            /\ klocals' = klocals
       ELSE /\ kpc' = "returned"
            /\ queries' = ExtractResult(question)
            /\ klocals' = [topic_prefix |-> topic_prefix(question),
                           topic_words |-> topic_words(question),
                           locations |-> locations(question)]
    /\ question' = question
    /\ UNCHANGED <<chunkVars, pdfVars, searchVars, chatVars, pagerVars>>

\* Question texts: every concatenation of up to MaxPieces pieces, and the
\* questions of the documented scenarios
MaxPieces == 3
Pieces == {" ", ",", "?", ".", "ist", "Wetter", "News", "Mainz", "Berlin"}

RECURSIVE Concats(_)
Concats(n) ==
    IF n = 0 THEN {""}
    ELSE LET shorter == Concats(n - 1)
         IN shorter \cup {s \o p : s \in shorter, p \in Pieces}

ExampleQuestions == {
    "Wetter in Mainz, Berlin und Köln",
    "Wie ist das Wetter in Mainz?",
    "Erkläre mir Quantenverschränkung",
    "Was kostet ein Flug nach New York?",
    "News Berlin, Berlin",
    "Wie ist es?",
    "Aktuelle Preise in Mainz und Berlin",
    "Preis News Wetter",
    "News und Preise in Köln",
    "Was kostet das in New York?",
    "Unwetter News",
    "preis in Mainz",
    "Kosten in Mainz und Berlin",
    "Wetter Mainz, Berlin, Mainz",
    "News aus Bad Kreuznach",
    "Wie? Was ist das?",
    "wetter in mainz",
    "\tWetter \t Mainz\n",
    "\t",
    "!",
    "a",
    "in Mainz!",
    "Mainz! Berlin",
    "a, b" }

Questions == Concats(MaxPieces) \cup ExampleQuestions

ChunkIdle ==
    /\ tokens = <<>>
    /\ max_tokens = DefaultMaxTokens
    /\ overlap = DefaultOverlap
    /\ start = 0
    /\ chunks = <<>>
    /\ pc = "idle"

InitKw ==
    /\ question \in Questions
    /\ queries = <<>>
    /\ kpc = "call"
    /\ klocals = NoLocals
    /\ ChunkIdle
    /\ PagerIdle
    /\ PdfIdle
    /\ ChatIdle

NextKw == ExtractSearchKeywords

SpecKw == InitKw /\ [][NextKw]_vars

----------------------------------------------------------------------------
(* Properties of extract_search_keywords *)

KwReturned == kpc = "returned"

\* The question consists only of '?' and whitespace characters
OnlyBlank(q) == \A i \in 1..Len(q) : Char(q, i) = "?" \/ IsSpace(Char(q, i))

\* C9: for every question, also an empty, whitespace-only or
\* punctuation-only one, the call does not raise and returns a list with at
\* least one element.
C9_TotalNonEmptyList ==
    /\ kpc # "raised"
    /\ KwReturned => Len(queries) >= 1

C9_Witness ==
    /\ KwReturned
    /\ Len(question) >= 2
    /\ \A i \in 1..Len(question) : IsSpace(Char(question, i))
    /\ Len(queries) = 1

\* C10 as claimed: every element of the returned list is a non-empty string.
C10_ElementsNonEmpty ==
    KwReturned => \A i \in 1..Len(queries) : queries[i] # ""

\* C10 amended: every element of the returned list is a non-empty string
\* unless the question consists only of '?' and whitespace (the empty
\* question included); for such a question the list is the single empty
\* string.
C10_ElementsNonEmptyUnlessBlank ==
    KwReturned =>
        IF OnlyBlank(question)
        THEN queries = <<"">>
        ELSE \A i \in 1..Len(queries) : queries[i] # ""

C10_Witness ==
    /\ KwReturned
    /\ ~OnlyBlank(question)
    /\ keywords(question) = <<>>
    /\ locations(question) = <<>>
    /\ Contains(question, "?")
    /\ \A i \in 1..Len(queries) : queries[i] # ""

\* The phrases found by the scan of lines 394-410, before duplicates are dropped
ScannedPhrases(q) == ScanWords(original_words(q), 1, <<>>, <<>>, klocals.topic_words)
PhraseSet(q) == {ScannedPhrases(q)[i] : i \in 1..Len(ScannedPhrases(q))}
FirstIndex(xs, x) == CHOOSE i \in 1..Len(xs) : xs[i] = x /\ \A j \in 1..(i - 1) : xs[j] # x
\* Position of phrase x among the distinct phrases, by first occurrence
Rank(q, x) ==
    Cardinality({FirstIndex(ScannedPhrases(q), y) : y \in PhraseSet(q)}
                \cap 1..FirstIndex(ScannedPhrases(q), x))

MatchesWeather(q) == \E t \in WeatherTriggers : Contains(Lower(q), t)
MatchesNews(q) == \E t \in NewsTriggers : Contains(Lower(q), t)
MatchesPrice(q) == \E t \in PriceTriggers : Contains(Lower(q), t)

\* A topic-plus-location rule applies: a topic and at least one phrase
TopicRuleApplies == Len(klocals.locations) >= 1 /\ klocals.topic_prefix # ""

\* C11: at most one topic is recognized, the first matching trigger set in
\* the order weather, news, price; a question matching several gets the
\* prefix and exclusion set of the earliest, a question matching none gets
\* no topic and the empty prefix.
C11_TopicOrder ==
    KwReturned =>
        /\ MatchesWeather(question) =>
              /\ klocals.topic_prefix = "Wetter heute"
              /\ klocals.topic_words =
                    {"wetter", "temperatur", "regen", "weather", "klima", "wie", "ist", "das"}
        /\ (~MatchesWeather(question) /\ MatchesNews(question)) =>
              /\ klocals.topic_prefix = "News aktuell"
              /\ klocals.topic_words = {"news", "nachrichten", "aktuell", "neuigkeiten"}
        /\ (~MatchesWeather(question) /\ ~MatchesNews(question) /\ MatchesPrice(question)) =>
              /\ klocals.topic_prefix = "Preis aktuell"
              /\ klocals.topic_words = {"preis", "kosten", "price", "cost"}
        /\ (~MatchesWeather(question) /\ ~MatchesNews(question) /\ ~MatchesPrice(question)) =>
              /\ klocals.topic_prefix = ""
              /\ klocals.topic_words = {}

C11_Witness ==
    /\ KwReturned
    /\ MatchesWeather(question) /\ MatchesNews(question) /\ MatchesPrice(question)
    /\ klocals.topic_prefix = "Wetter heute"

\* C12: with at least two distinct location phrases and a recognized topic
\* the result is one query per distinct phrase, in first-occurrence order,
\* each the topic prefix, one space and the phrase.
C12_MultiLocation ==
    (KwReturned /\ Cardinality(PhraseSet(question)) >= 2 /\ klocals.topic_prefix # "") =>
        /\ Len(queries) = Cardinality(PhraseSet(question))
        /\ \A x \in PhraseSet(question) :
              queries[Rank(question, x)] = klocals.topic_prefix \o " " \o x

C12_Witness ==
    /\ KwReturned
    /\ klocals.topic_prefix # ""
    /\ Cardinality(PhraseSet(question)) >= 2
    /\ Len(ScannedPhrases(question)) > Cardinality(PhraseSet(question))
    /\ Len(queries) = 2

\* C13: with exactly one distinct location phrase and a recognized topic the
\* result is one query: for weather "Wetter <phrase> aktuell heute", for news
\* and price the topic prefix, one space and the phrase.
C13_SingleLocation ==
    (KwReturned /\ Cardinality(PhraseSet(question)) = 1 /\ klocals.topic_prefix # "") =>
        \A x \in PhraseSet(question) :
            queries = IF MatchesWeather(question)
                      THEN <<"Wetter " \o x \o " aktuell heute">>
                      ELSE <<klocals.topic_prefix \o " " \o x>>

C13_Witness ==
    /\ KwReturned
    /\ question = "Wie ist das Wetter in Mainz?"
    /\ klocals.locations = <<"Mainz">>
    /\ queries = <<"Wetter Mainz aktuell heute">>

\* C14: when no topic-plus-location rule applies, the result is the single
\* query joining with single blanks, in order, the words of the normalized
\* question that are no stopwords (case-insensitively) and longer than one
\* character, provided that this join is not empty.
C14_Kept(w) == Lower(w) \notin stopwords /\ Len(w) > 1
C14_Joined(q) == Join(SelectSeq(Split(clean_question(q)), C14_Kept), " ")

C14_KeywordJoin ==
    (KwReturned /\ ~TopicRuleApplies /\ C14_Joined(question) # "") =>
        queries = <<C14_Joined(question)>>

C14_Witness ==
    /\ KwReturned
    /\ question = "Erkläre mir Quantenverschränkung"
    /\ ~TopicRuleApplies
    /\ queries = <<"Quantenverschränkung">>

\* The question with its trailing '?' removed and surrounding whitespace trimmed
RECURSIVE DropTrailingQ(_)
DropTrailingQ(s) ==
    IF Len(s) > 0 /\ Char(s, Len(s)) = "?"
    THEN DropTrailingQ(SubSeq(s, 1, Len(s) - 1))
    ELSE s
TrailingQStripped(q) == Strip(DropTrailingQ(Strip(q)))

\* C15: when no topic-plus-location rule applies and the question has no
\* keyword, the result is the single query equal to the question with only
\* its trailing '?' stripped and surrounding whitespace trimmed; every other
\* character, a '?' that is not trailing included, is kept.
C15_FallbackKeepsInnerQ ==
    (KwReturned /\ ~TopicRuleApplies /\ C14_Joined(question) = "") =>
        queries = <<TrailingQStripped(question)>>

\* C16: "Wetter in Mainz, Berlin und Köln" is recognized as weather, its
\* location phrases are Mainz, Berlin, Köln in that order, and the result is
\* the three queries of the weather prefix followed by each of them.
C16_Scenario ==
    (KwReturned /\ question = "Wetter in Mainz, Berlin und Köln") =>
        /\ klocals.topic_prefix = "Wetter heute"
        /\ klocals.locations = <<"Mainz", "Berlin", "Köln">>
        /\ queries = <<"Wetter heute Mainz", "Wetter heute Berlin", "Wetter heute Köln">>

C16_Witness ==
    /\ KwReturned
    /\ question = "Wetter in Mainz, Berlin und Köln"
    /\ Len(queries) = 3

----------------------------------------------------------------------------
(* process_pdf, get_embeddings and the collection *)

MaxEmb == 1        \* embedding vectors are represented by 0..MaxEmb
MaxShortText == 2  \* longest short PDF text, in tokens

PdfPaths == {"a.pdf", "noten/b.pdf"}

\* Texts extract_text_from_pdf can return, as their token sequences; the
\* empty text (no page text, or a read error) is the empty sequence
PdfTexts ==
    {t \in TokenSeqs : Len(t) <= MaxShortText} \cup {ExampleTokens(n) : n \in ExampleLens}

\* Lists the embeddings endpoint can answer a request for n inputs with
EmbResponses(n) ==
    UNION {[1..k -> 0..MaxEmb] : k \in {m \in {n - 1, n, n + 1} : m >= 0}}

\* line 140: ids = [f"{pdf_path}_{i}" for i in range(len(chunks))]
IdsFromOne(path, n) == [i \in 1..n |-> path \o "_" \o ToString(i)]
Ids(path, n) == [i \in 1..n |-> path \o "_" \o ToString(i - 1)]

\* line 141
Metadatas(path, n) == [i \in 1..n |-> [source |-> path, chunk_id |-> i - 1]]

\* line 146: documents=chunks, the decoded chunk texts
Documents(cs) == [i \in 1..Len(cs) |-> cs[i].tokens]

\* collection.add(ids, embeddings, documents, metadatas): one record per position
AddedRecords(ids, embs, docs, metas) ==
    [i \in 1..Len(ids) |->
        [id |-> ids[i], embedding |-> embs[i], document |-> docs[i], metadata |-> metas[i]]]

\* lines 124-130: extract the text; return if it is empty, else call chunk_text
\* with its default parameters
ExtractText ==
    /\ ppc = "start"
    /\ \E text \in PdfTexts :
          IF text = <<>>
          THEN /\ ppc' = "done"
               /\ UNCHANGED chunkVars
          ELSE /\ ppc' = "chunking"
               /\ tokens' = text
               /\ max_tokens' = DefaultMaxTokens
               /\ overlap' = DefaultOverlap
               /\ start' = 0
               /\ chunks' = <<>>
               /\ pc' = "entry"
    /\ UNCHANGED <<pdf_path, embeddings, collection, add_calls>>
    /\ UNCHANGED <<kwVars, pagerVars, searchVars, chatVars>>

\* lines 134-137 with get_embeddings (104-117): a failed request gives [],
\* a successful one the list of the response; return if the list is empty
GetEmbeddingsUnchecked ==
    /\ ppc = "chunking"
    /\ pc = "returned"
    /\ \E ok \in BOOLEAN, data \in EmbResponses(Len(chunks)) :
          /\ embeddings' = IF ok THEN data ELSE <<>>
          /\ ppc' = "store"
    /\ UNCHANGED <<pdf_path, collection, add_calls>>
    /\ UNCHANGED <<chunkVars, kwVars, pagerVars, searchVars, chatVars>>
GetEmbeddings ==
    /\ ppc = "chunking"
    /\ pc = "returned"
    /\ \E ok \in BOOLEAN, data \in EmbResponses(Len(chunks)) :
          /\ embeddings' = IF ok THEN data ELSE <<>>
          /\ ppc' = IF embeddings' = <<>> THEN "done" ELSE "store"
    /\ UNCHANGED <<pdf_path, collection, add_calls>>
    /\ UNCHANGED <<chunkVars, kwVars, pagerVars, searchVars, chatVars>>

\* lines 140-150: build ids and metadatas and call collection.add once; the
\* collection rejects lists of unequal lengths with a ValueError
CollectionAdd ==
    /\ ppc = "store"
    /\ add_calls' = add_calls + 1
    /\ IF Len(embeddings) = Len(chunks)
       THEN /\ collection' = collection \o
                    AddedRecords(Ids(pdf_path, Len(chunks)), embeddings,
                                 Documents(chunks), Metadatas(pdf_path, Len(chunks)))
            /\ ppc' = "done"
       ELSE /\ collection' = collection
            /\ ppc' = "raised"
    /\ UNCHANGED <<pdf_path, embeddings>>
    /\ UNCHANGED <<chunkVars, kwVars, pagerVars, searchVars, chatVars>>

InitPdf ==
    /\ ppc = "start"
    /\ pdf_path \in PdfPaths
    /\ embeddings = <<>>
    /\ collection = <<>>
    /\ add_calls = 0
    /\ ChunkIdle
    /\ PagerIdle
    /\ KwIdle
    /\ ChatIdle

\* chunk_text runs with its defaults here, so its while condition never fails
\* and LoopExit is never enabled
NextPdf == ExtractText \/ ChunkEntry \/ LoopIter \/ GetEmbeddings \/ CollectionAdd

SpecPdf == InitPdf /\ [][NextPdf]_vars

----------------------------------------------------------------------------
(* Properties of process_pdf *)

Stored == ppc = "done" /\ add_calls >= 1

\* C18: when process_pdf stores a document, for every index i the record
\* with id "<pdf_path>_<i>" carries chunk_id i, the i-th chunk of chunk_text
\* and the i-th embedding of the response, and there are as many ids,
\* documents and metadatas as chunks.
C18_OrderPreserved ==
    Stored =>
        /\ Len(collection) = NumChunks
        /\ \A i \in 0..(NumChunks - 1) :
              LET recs == {k \in 1..Len(collection) :
                              collection[k].id = pdf_path \o "_" \o ToString(i)}
              IN /\ Cardinality(recs) = 1
                 /\ \A k \in recs :
                       /\ collection[k].metadata.chunk_id = i
                       /\ collection[k].metadata.source = pdf_path
                       /\ collection[k].document = chunks[i + 1].tokens
                       /\ collection[k].embedding = embeddings[i + 1]

C18_Witness ==
    /\ Stored
    /\ NumChunks = 3
    /\ embeddings[1] # embeddings[2]
    /\ chunks[1].tokens # chunks[3].tokens
    /\ Len(collection) = 3

----------------------------------------------------------------------------
(* web_search and its two backends *)

\* Python's None for a search result
None == "None"

\* if search_result: / if not search_result:
Truthy(r) == r # None /\ r # ""

\* The texts of the web search and of the prompt loop are written in ASCII,
\* with ue for the u umlaut of the source texts: TLC does not keep other
\* characters of a stored string intact once the state queue grows large. The
\* messages of SpecCompletion keep their umlauts, its state queue stays small.

\* Page contents a backend can deliver
Contents == {"12 Grad, sonnig", "Fehler 404"}

\* web_search_tavily (476-529): the formatted result text, None on any exception
TavilyOutcomes(query) ==
    {None} \cup {"Suchergebnisse fuer: " \o query \o "\nZusammenfassung: " \o c : c \in Contents}

\* web_search_ddgs (531-574): the formatted result text, None when there is no
\* hit or on any exception
DdgsOutcomes(query) ==
    {None} \cup {"Suchergebnisse fuer: " \o query \o "\nInhalt:\n" \o c : c \in Contents}

\* lines 606-610 (the bullet characters of the two list lines are left out)
ErrorMsg ==
    "Websuche nicht verfuegbar. Bitte installiere:\n"
    \o "  pip install tavily-python --break-system-packages (empfohlen)\n"
    \o "  pip install duckduckgo-search --break-system-packages (Fallback)"

\* line 600: if not search_result and self.ddgs
CallsDdgsAlways(r1) == ddgs
CallsDdgs(r1) == ~Truthy(r1) /\ ddgs

\* lines 591-614 of web_search(query); tvOut and ddOut are what the backends
\* answer if they are called
WebSearch(query, tvOut, ddOut) ==
    LET r1 == IF tavily THEN tvOut ELSE None
        m1 == IF tavily /\ Truthy(r1) THEN "Tavily" ELSE None
        log1 == IF tavily
                THEN <<[call |-> "tavily", query |-> query, result |-> tvOut]>>
                ELSE <<>>
        r2 == IF CallsDdgs(r1) THEN ddOut ELSE r1
        m2 == IF CallsDdgs(r1) /\ Truthy(ddOut) THEN "DuckDuckGo (Fallback)" ELSE m1
        log2 == IF CallsDdgs(r1)
                THEN Append(log1, [call |-> "ddgs", query |-> query, result |-> ddOut])
                ELSE log1
    IN [result |-> IF Truthy(r2) THEN r2 ELSE ErrorMsg,
        method |-> IF Truthy(r2) THEN m2 ELSE None,
        log |-> log2]

\* One call of web_search(ws_query) on a client in any configuration
WebSearchCall ==
    /\ wpc = "call"
    /\ \E tvOut \in TavilyOutcomes(ws_query), ddOut \in DdgsOutcomes(ws_query) :
          LET r == WebSearch(ws_query, tvOut, ddOut)
          IN /\ ws_result' = r.result
             /\ last_search_method' = r.method
             /\ search_log' = r.log
    /\ wpc' = "returned"
    /\ UNCHANGED <<tavily, ddgs, ws_query>>
    /\ UNCHANGED <<chunkVars, kwVars, pagerVars, pdfVars, chatVars>>

SearchQueries ==
    {"", "Wetter Mainz", "Wetter in Mainz, Berlin und Bonn", "News", "Fehler im Code",
     "Preis Benzin", "Was ist nicht verfuegbar?"}

InitSearch ==
    /\ tavily \in BOOLEAN
    /\ ddgs \in BOOLEAN
    /\ last_search_method \in {None, "Tavily", "DuckDuckGo (Fallback)"}
    /\ search_log = <<>>
    /\ ws_query \in SearchQueries
    /\ ws_result = ""
    /\ wpc = "call"
    /\ conversation = <<>>
    /\ current_model = ""
    /\ reasoning_effort = "medium"
    /\ user_input = ""
    /\ effect = "none"
    /\ response = ""
    /\ cpc = "idle"
    /\ ChunkIdle
    /\ PagerIdle
    /\ KwIdle
    /\ PdfIdle

NextSearch == WebSearchCall

SpecSearch == InitSearch /\ [][NextSearch]_vars

----------------------------------------------------------------------------
(* Properties of web_search *)

WsReturned == wpc = "returned"
LogCalls(b) == {k \in 1..Len(search_log) : search_log[k].call = b}
GotResult(b) == \E k \in LogCalls(b) : Truthy(search_log[k].result)

\* C19: Tavily is tried first whenever it is configured; DuckDuckGo is
\* queried only if Tavily is not configured or returned no result; if no
\* backend yields a result the 'Websuche nicht verfuegbar' message is
\* returned and last_search_method is None, otherwise last_search_method
\* names exactly the backend whose result is returned.
C19_TavilyFirst ==
    WsReturned =>
        /\ tavily => (Len(search_log) >= 1 /\ search_log[1].call = "tavily")
        /\ ~tavily => LogCalls("tavily") = {}
        /\ Cardinality(LogCalls("tavily")) <= 1 /\ Cardinality(LogCalls("ddgs")) <= 1
        /\ \A k \in 1..Len(search_log) : search_log[k].query = ws_query
        /\ LogCalls("ddgs") # {} => (ddgs /\ (~tavily \/ ~GotResult("tavily")))
        /\ (~GotResult("tavily") /\ ~GotResult("ddgs")) =>
              /\ Contains(ws_result, "Websuche nicht verfuegbar")
              /\ last_search_method = None
        /\ GotResult("tavily") =>
              /\ last_search_method = "Tavily"
              /\ \E k \in LogCalls("tavily") : ws_result = search_log[k].result
        /\ (~GotResult("tavily") /\ GotResult("ddgs")) =>
              /\ last_search_method = "DuckDuckGo (Fallback)"
              /\ \E k \in LogCalls("ddgs") : ws_result = search_log[k].result

C19_Witness ==
    /\ WsReturned
    /\ tavily /\ ddgs
    /\ Len(search_log) = 2
    /\ ~GotResult("tavily") /\ GotResult("ddgs")
    /\ last_search_method = "DuckDuckGo (Fallback)"

----------------------------------------------------------------------------
(* chat_completion and the command loop of run *)

MaxConv == 2       \* a chat request is explored while fewer messages are stored

\* s.startswith(p)
StartsWith(s, p) == Len(s) >= Len(p) /\ SubSeq(s, 1, Len(p)) = p

\* s.lstrip()
LStrip(s) ==
    LET idx == {i \in 1..Len(s) : ~IsSpace(Char(s, i))}
    IN IF idx = {} THEN ""
       ELSE SubSeq(s, CHOOSE i \in idx : \A j \in idx : i <= j, Len(s))

\* s.split(maxsplit=1): [], [word] or [word, rest]
SplitOnce(s) ==
    LET t == LStrip(s)
        ends == {i \in 1..Len(t) : IsSpace(Char(t, i))}
        cut == IF ends = {} THEN Len(t) + 1
               ELSE CHOOSE i \in ends : \A j \in ends : i <= j
        rest == LStrip(SubSeq(t, cut, Len(t)))
    IN IF t = "" THEN <<>>
       ELSE IF rest = "" THEN <<SubSeq(t, 1, cut - 1)>>
       ELSE <<SubSeq(t, 1, cut - 1), rest>>

\* lines 1010-1013
IsCommand(ui) == StartsWith(ui, "/")
cmd_parts(ui) == SplitOnce(SubSeq(ui, 2, Len(ui)))
cmd(ui) == Lower(cmd_parts(ui)[1])
arg(ui) == IF Len(cmd_parts(ui)) > 1 THEN cmd_parts(ui)[2] ELSE ""

\* Commands with a branch of their own in the dispatcher
HandledCommands ==
    {"paste", "exit", "quit", "q", "help", "model", "reasoning", "clear", "history"}

\* line 703
strong_triggers == {"aktuell", "heute", "news", "2025", "wetter", "weather", "preis", "kurs"}

\* line 704
ShouldSearch(msg, use_search) == use_search \/ AnyIn(strong_triggers, Lower(msg))

\* line 709: the search results are usable as context
Usable(results) ==
    Truthy(results) /\ ~Contains(results, "Fehler") /\ ~Contains(results, "nicht verfuegbar")

\* lines 710 and 713-715
Enhanced(msg, results) ==
    msg \o "\n\nBitte beruecksichtige diese aktuellen Informationen aus dem Web:"
        \o "\n\n[Aktuelle Suchergebnisse zum Thema:\n" \o results \o "]\n\n"

\* What the chat API can answer: a complete stream, a non-200 status, a
\* request exception before the stream or while it is read
Replies == {"Antwort", ""}
ApiOutcomes ==
    {[status |-> "ok", reply |-> r] : r \in Replies}
    \cup {[status |-> "http_error", reply |-> ""], [status |-> "exception", reply |-> ""],
          [status |-> "exception", reply |-> "Ant"]}

\* lines 747 and 775: the text yielded when the request fails
ApiErrorText == "[API Error]"
RequestErrorText == "[Fehler]"

\* The chunks yielded to the caller, joined (lines 747, 766, 775)
Yielded(api) ==
    IF api.status = "ok" THEN api.reply
    ELSE IF api.status = "http_error" THEN ApiErrorText
    ELSE api.reply \o RequestErrorText

\* lines 717-775: the conversation after the request, asked being the
\* conversation with the user message appended
AnsweredOrRolledBack(asked, api) ==
    IF api.status = "ok"
    THEN Append(asked, [role |-> "assistant", content |-> api.reply])
    ELSE SubSeq(asked, 1, Len(asked) - 1)
Answered(asked, api) ==
    IF api.status = "ok"
    THEN Append(asked, [role |-> "assistant", content |-> api.reply])
    ELSE asked

\* chat_completion(msg, use_search), lines 688-775
ChatCompletion(msg, use_search) ==
    \E tvOut \in TavilyOutcomes(msg), ddOut \in DdgsOutcomes(msg), api \in ApiOutcomes :
        LET searched == (tavily \/ ddgs) /\ ShouldSearch(msg, use_search)
            r == WebSearch(msg, tvOut, ddOut)
            enhanced == IF searched /\ Usable(r.result) THEN Enhanced(msg, r.result) ELSE msg
            asked == Append(conversation, [role |-> "user", content |-> enhanced])
        IN /\ last_search_method' = IF searched THEN r.method ELSE None
           /\ search_log' =
                 IF searched
                 THEN <<[call |-> "web_search", query |-> msg, result |-> r.result]>> \o r.log
                 ELSE <<>>
           /\ ws_query' = IF searched THEN msg ELSE ws_query
           /\ ws_result' = IF searched THEN r.result ELSE ws_result
           /\ conversation' = Answered(asked, api)
           /\ response' = Yielded(api)

NoChat ==
    UNCHANGED <<conversation, response, last_search_method, search_log, ws_query, ws_result>>

\* Lines typed at the prompt
PromptLines ==
    {"", "  ", "/", "/help", "/HELP", "/ help", "/search Wetter Mainz", "/models",
     "/model", "/model Qwen", "/clear", "/exit", "/quit", "/q", "/history",
     "/reasoning", "/reasoning high", "/reasoning LOW", "/paste", "/foo", "/w",
     "/w Wetter in Mainz, Berlin und Bonn", "Hallo", "Wie ist das Wetter in Mainz?",
     "\"\"\"", "\"\"\"Hallo"}

\* Lines typed after an opening """ (before the closing one) or in paste mode
\* (before END)
MoreLines == {<<>>, <<"Welt">>}

Models == {"GPT OSS 120B", "Qwen"}

\* lines 985-1006: the input read by one turn of the loop; a line starting
\* with """ is joined with the lines that follow it
ReadLines(line, more) ==
    IF StartsWith(Strip(line), "\"\"\"")
    THEN Join(<<SubSeq(Strip(line), 4, Len(Strip(line)))>> \o more, "\n")
    ELSE line

\* Every input one turn of the loop can read
TypedInputs == {ReadLines(line, more) : line \in PromptLines, more \in MoreLines}

\* lines 992-993 and 1007-1008: the inputs that end the turn at once (continue)
SkippedInputs == {ui \in TypedInputs : Strip(ui) = ""}

\* lines 1010-1013: what the dispatcher makes of an input
ParseInput(ui) ==
    [user_input |-> ui,
     command |-> IsCommand(ui),
     cmd_parts |-> IF IsCommand(ui) THEN cmd_parts(ui) ELSE <<>>,
     cmd |-> IF IsCommand(ui) /\ cmd_parts(ui) # <<>> THEN cmd(ui) ELSE "",
     arg |-> IF IsCommand(ui) THEN arg(ui) ELSE ""]

\* The inputs that reach the dispatcher
Parsed == {ParseInput(ui) : ui \in TypedInputs \ SkippedInputs}

\* lines 992-993 and 1007-1008: a blank input is ignored
BlankInput ==
    /\ cpc = "prompt"
    /\ \E ui \in SkippedInputs : user_input' = ui
    /\ cpc' = "handled"
    /\ effect' = "blank"
    /\ UNCHANGED <<conversation, current_model, reasoning_effort, response>>
    /\ UNCHANGED <<chunkVars, kwVars, pagerVars, pdfVars, searchVars>>

\* line 1012: cmd_parts[0] of an input that is "/" alone raises IndexError,
\* which run() does not catch
CmdIndexError ==
    /\ cpc = "prompt"
    /\ \E p \in Parsed :
          /\ p.command /\ p.cmd_parts = <<>>
          /\ user_input' = p.user_input
    /\ cpc' = "crashed"
    /\ effect' = "IndexError"
    /\ UNCHANGED <<conversation, current_model, reasoning_effort, response>>
    /\ UNCHANGED <<chunkVars, kwVars, pagerVars, pdfVars, searchVars>>

\* lines 1015-1055: /paste collects lines up to END and sends them as a chat request
CmdPaste ==
    /\ cpc = "prompt"
    /\ \E p \in Parsed, lines \in MoreLines :
          /\ p.cmd = "paste"
          /\ user_input' = p.user_input
          /\ IF lines # <<>>
             THEN /\ Len(conversation) < MaxConv
                  /\ ChatCompletion(Join(lines, "\n"), FALSE)
                  /\ effect' = "chat"
             ELSE /\ NoChat
                  /\ effect' = "nothing pasted"
    /\ cpc' = "handled"
    /\ UNCHANGED <<current_model, reasoning_effort>>
    /\ UNCHANGED <<tavily, ddgs, wpc>>
    /\ UNCHANGED <<chunkVars, kwVars, pagerVars, pdfVars>>

\* lines 1056-1059
CmdExit ==
    /\ cpc = "prompt"
    /\ \E p \in Parsed :
          /\ p.cmd \in {"exit", "quit", "q"}
          /\ user_input' = p.user_input
    /\ cpc' = "exited"
    /\ effect' = "exit"
    /\ UNCHANGED <<conversation, current_model, reasoning_effort, response>>
    /\ UNCHANGED <<chunkVars, kwVars, pagerVars, pdfVars, searchVars>>

\* lines 1060-1062
CmdHelp ==
    /\ cpc = "prompt"
    /\ \E p \in Parsed :
          /\ p.cmd = "help"
          /\ user_input' = p.user_input
    /\ cpc' = "handled"
    /\ effect' = "help"
    /\ UNCHANGED <<conversation, current_model, reasoning_effort, response>>
    /\ UNCHANGED <<chunkVars, kwVars, pagerVars, pdfVars, searchVars>>

\* lines 1063-1065 with select_model (312-354): the argument is not used; if
\* the model list can be fetched the user picks one of its entries
CmdModel ==
    /\ cpc = "prompt"
    /\ \E p \in Parsed, fetched \in BOOLEAN, choice \in Models :
          /\ p.cmd = "model"
          /\ user_input' = p.user_input
          /\ current_model' = IF fetched THEN choice ELSE current_model
    /\ cpc' = "handled"
    /\ effect' = "select_model"
    /\ UNCHANGED <<conversation, reasoning_effort, response>>
    /\ UNCHANGED <<chunkVars, kwVars, pagerVars, pdfVars, searchVars>>

\* lines 1066-1074
CmdReasoning ==
    /\ cpc = "prompt"
    /\ \E p \in Parsed :
          /\ p.cmd = "reasoning"
          /\ user_input' = p.user_input
          /\ reasoning_effort' =
                IF p.arg # "" /\ Lower(p.arg) \in {"low", "medium", "high"}
                THEN Lower(p.arg)
                ELSE reasoning_effort
    /\ cpc' = "handled"
    /\ effect' = "reasoning"
    /\ UNCHANGED <<conversation, current_model, response>>
    /\ UNCHANGED <<chunkVars, kwVars, pagerVars, pdfVars, searchVars>>

\* lines 1075-1078
CmdClearKeeps ==
    /\ cpc = "prompt"
    /\ \E p \in Parsed :
          /\ p.cmd = "clear"
          /\ user_input' = p.user_input
    /\ conversation' = conversation
    /\ cpc' = "handled"
    /\ effect' = "clear"
    /\ UNCHANGED <<current_model, reasoning_effort, response>>
    /\ UNCHANGED <<chunkVars, kwVars, pagerVars, pdfVars, searchVars>>
CmdClear ==
    /\ cpc = "prompt"
    /\ \E p \in Parsed :
          /\ p.cmd = "clear"
          /\ user_input' = p.user_input
    /\ conversation' = <<>>
    /\ cpc' = "handled"
    /\ effect' = "clear"
    /\ UNCHANGED <<current_model, reasoning_effort, response>>
    /\ UNCHANGED <<chunkVars, kwVars, pagerVars, pdfVars, searchVars>>

\* lines 1079-1081
CmdHistory ==
    /\ cpc = "prompt"
    /\ \E p \in Parsed :
          /\ p.cmd = "history"
          /\ user_input' = p.user_input
    /\ cpc' = "handled"
    /\ effect' = "history"
    /\ UNCHANGED <<conversation, current_model, reasoning_effort, response>>
    /\ UNCHANGED <<chunkVars, kwVars, pagerVars, pdfVars, searchVars>>

\* lines 1082-1101: /w <frage> sends the argument as a chat request with search
CmdW ==
    /\ cpc = "prompt"
    /\ Len(conversation) < MaxConv
    /\ \E p \in Parsed :
          /\ p.cmd = "w" /\ p.arg # ""
          /\ user_input' = p.user_input
          /\ ChatCompletion(p.arg, TRUE)
    /\ cpc' = "handled"
    /\ effect' = "search chat"
    /\ UNCHANGED <<current_model, reasoning_effort>>
    /\ UNCHANGED <<tavily, ddgs, wpc>>
    /\ UNCHANGED <<chunkVars, kwVars, pagerVars, pdfVars>>

\* lines 1102-1104: any other command, and /w without an argument
CmdUnknown ==
    /\ cpc = "prompt"
    /\ \E p \in Parsed :
          /\ p.command /\ p.cmd_parts # <<>>
          /\ p.cmd \notin HandledCommands
          /\ ~(p.cmd = "w" /\ p.arg # "")
          /\ user_input' = p.user_input
    /\ cpc' = "handled"
    /\ effect' = "unknown command"
    /\ UNCHANGED <<conversation, current_model, reasoning_effort, response>>
    /\ UNCHANGED <<chunkVars, kwVars, pagerVars, pdfVars, searchVars>>

\* lines 1106-1124: any other input is a chat request, search only on triggers
ChatMessage ==
    /\ cpc = "prompt"
    /\ Len(conversation) < MaxConv
    /\ \E p \in Parsed :
          /\ ~p.command
          /\ user_input' = p.user_input
          /\ ChatCompletion(p.user_input, FALSE)
    /\ cpc' = "handled"
    /\ effect' = "chat"
    /\ UNCHANGED <<current_model, reasoning_effort>>
    /\ UNCHANGED <<tavily, ddgs, wpc>>
    /\ UNCHANGED <<chunkVars, kwVars, pagerVars, pdfVars>>

\* back to the top of the while loop (line 971); the records of the handled
\* input are dropped
NextPrompt ==
    /\ cpc = "handled"
    /\ cpc' = "prompt"
    /\ user_input' = ""
    /\ effect' = "none"
    /\ response' = ""
    /\ search_log' = <<>>
    /\ ws_query' = ""
    /\ ws_result' = ""
    /\ UNCHANGED <<conversation, current_model, reasoning_effort>>
    /\ UNCHANGED <<tavily, ddgs, last_search_method, wpc>>
    /\ UNCHANGED <<chunkVars, kwVars, pagerVars, pdfVars>>

\* lines 224-238 and 943-948: a client whose model has been selected
InitChat ==
    /\ tavily \in BOOLEAN
    /\ ddgs \in BOOLEAN
    /\ last_search_method = None
    /\ search_log = <<>>
    /\ ws_query = ""
    /\ ws_result = ""
    /\ wpc = "idle"
    /\ conversation = <<>>
    /\ current_model \in Models
    /\ reasoning_effort = "medium"
    /\ user_input = ""
    /\ effect = "none"
    /\ response = ""
    /\ cpc = "prompt"
    /\ ChunkIdle
    /\ PagerIdle
    /\ KwIdle
    /\ PdfIdle

NextChat ==
    \/ BlankInput \/ CmdIndexError \/ CmdPaste \/ CmdExit \/ CmdHelp \/ CmdModel
    \/ CmdReasoning \/ CmdClear \/ CmdHistory \/ CmdW \/ CmdUnknown \/ ChatMessage
    \/ NextPrompt

SpecChat == InitChat /\ [][NextChat]_vars

----------------------------------------------------------------------------
(* Properties of the chat loop *)

\* The turn just handled performed a web search
Searched == cpc = "handled" /\ search_log # <<>>

\* The queries handed to web_search during the turn, in call order
WebSearchQueries ==
    LET ws == SelectSeq(search_log, LAMBDA e : e.call = "web_search")
    IN [i \in 1..Len(ws) |-> ws[i].query]

\* C17: when a chat request performs a web search for a question, the
\* searches issued are exactly the queries extract_search_keywords produces
\* for that question, one search per query, in order.
C17_OneSearchPerQuery == Searched => WebSearchQueries = ExtractResult(ws_query)

\* lines 11-16 of the module docstring
DocstringCommands == {"search", "help", "models", "model", "clear", "exit", "quit"}

\* The input of the turn just handled
Handled(p) == cpc \in {"handled", "exited"} /\ user_input = p.user_input

\* C20: every command of the module docstring is accepted by the dispatcher
\* and does what the docstring says: none is reported as unknown, /search
\* <query> searches the web for the query, /help shows the help, /models
\* shows the models, /model <name> switches to the named model, /clear
\* empties the conversation, /exit and /quit end the program.
C20_DocstringCommands ==
    \A p \in Parsed :
        (Handled(p) /\ p.cmd \in DocstringCommands) =>
            /\ effect # "unknown command"
            /\ (p.cmd = "search" /\ p.arg # "" /\ (tavily \/ ddgs)) =>
                   WebSearchQueries = <<p.arg>>
            /\ p.cmd = "help" => effect = "help"
            /\ p.cmd = "models" => effect = "show models"
            /\ (p.cmd = "model" /\ p.arg \in Models) => current_model = p.arg
            /\ p.cmd = "clear" => conversation = <<>>
            /\ p.cmd \in {"exit", "quit"} => cpc = "exited"

----------------------------------------------------------------------------
(* chat_completion called on its own *)

\* Messages passed to chat_completion
CompletionMessages ==
    {"Hallo", "Wie ist das Wetter in Mainz?", "WETTER", "Was kosten die Preise",
     "Gibt es News", "Wie steht die Börse?", "Was ist aktuell los", "Was ist Heute",
     "Unwetter", "Kurs 2025", "Erzähl mir einen Witz", "Fehler im Code"}

\* The conversation before the call: empty, after a failed request, after an
\* answered one
PriorConversations ==
    {<<>>,
     <<[role |-> "user", content |-> "Hallo"]>>,
     <<[role |-> "user", content |-> "Hallo"],
       [role |-> "assistant", content |-> "Antwort"]>>}

\* lines 688-775: one call chat_completion(user_input, use_search); effect
\* tells the caller's flag as the loop does ("search chat" for use_search=True)
ChatCompletionCall ==
    /\ cpc = "call"
    /\ ChatCompletion(user_input, effect = "search chat")
    /\ cpc' = "handled"
    /\ UNCHANGED <<current_model, reasoning_effort, user_input, effect>>
    /\ UNCHANGED <<tavily, ddgs, wpc>>
    /\ UNCHANGED <<chunkVars, kwVars, pagerVars, pdfVars>>

InitCompletion ==
    /\ tavily \in BOOLEAN
    /\ ddgs \in BOOLEAN
    /\ last_search_method = None
    /\ search_log = <<>>
    /\ ws_query = ""
    /\ ws_result = ""
    /\ wpc = "idle"
    /\ conversation \in PriorConversations
    /\ current_model \in Models
    /\ reasoning_effort = "medium"
    /\ user_input \in CompletionMessages
    /\ effect \in {"chat", "search chat"}
    /\ response = ""
    /\ cpc = "call"
    /\ ChunkIdle
    /\ PagerIdle
    /\ KwIdle
    /\ PdfIdle

NextCompletion == ChatCompletionCall

SpecCompletion == InitCompletion /\ [][NextCompletion]_vars

\* lines 901-902 of the help text, lower-cased
HelpTopics == {"wetter", "preise", "news", "börse", "aktuell", "heute"}

\* The call returned; it was made without the search flag
ReturnedUnflagged == cpc = "handled" /\ effect = "chat"

\* C21: without the search flag, chat_completion searches the web for every
\* message that mentions, in any letter case, one of the topics of the help
\* text when a backend is available, and never searches when none is.
C21_HelpTopicsSearched ==
    ReturnedUnflagged =>
        /\ ((tavily \/ ddgs) /\ AnyIn(HelpTopics, Lower(user_input))) => search_log # <<>>
        /\ ~(tavily \/ ddgs) => search_log = <<>>

----------------------------------------------------------------------------
(* Pager.show *)

MaxPages == 7      \* a pager has 1..MaxPages pages

\* Keys get_char can return
Keys == {" ", "b", "q", "x", "B", "\n"}

\* lines 211-216: the page shown after the key c
NextPageUnguarded(page, pages, c) ==
    IF c = " " THEN page + 1
    ELSE IF c = "b" THEN page - 1
    ELSE page
NextPage(page, pages, c) ==
    IF c = " " THEN (IF page < pages - 1 THEN page + 1 ELSE page)
    ELSE IF c = "b" THEN (IF page > 0 THEN page - 1 ELSE page)
    ELSE page

\* lines 166-171: a content of one page is printed whole
ShowWhole ==
    /\ gpc = "show"
    /\ total_pages <= 1
    /\ gpc' = "returned"
    /\ UNCHANGED <<total_pages, current_page, char>>
    /\ UNCHANGED <<chunkVars, kwVars, pdfVars, searchVars, chatVars>>

\* line 186
StartPaging ==
    /\ gpc = "show"
    /\ total_pages > 1
    /\ current_page' = 0
    /\ gpc' = "paging"
    /\ UNCHANGED <<total_pages, char>>
    /\ UNCHANGED <<chunkVars, kwVars, pdfVars, searchVars, chatVars>>

\* lines 187-218: one turn of the loop: show the page, read a key, act on it
PressKey ==
    /\ gpc = "paging"
    /\ \E c \in Keys :
          /\ char' = c
          /\ current_page' = NextPage(current_page, total_pages, c)
          /\ gpc' = IF c = "q" THEN "returned" ELSE "paging"
    /\ UNCHANGED total_pages
    /\ UNCHANGED <<chunkVars, kwVars, pdfVars, searchVars, chatVars>>

\* lines 127-151: total_pages is at least 1
InitPager ==
    /\ total_pages \in 1..MaxPages
    /\ current_page = 0
    /\ char = ""
    /\ gpc = "show"
    /\ ChunkIdle
    /\ KwIdle
    /\ PdfIdle
    /\ ChatIdle

NextPager == ShowWhole \/ StartPaging \/ PressKey

SpecPager == InitPager /\ [][NextPager]_vars

\* C22: with more than one page, SPACE moves to the next page and stays on
\* the last one, b moves to the previous page and stays on the first one, q
\* ends paging, any other key changes nothing; the page index always
\* satisfies 0 <= current_page <= total_pages - 1.
C22_Paging ==
    /\ [](0 <= current_page /\ current_page <= total_pages - 1)
    /\ [][gpc = "paging" =>
            /\ total_pages > 1
            /\ char' = " " =>
                  current_page' = IF current_page = total_pages - 1
                                  THEN current_page ELSE current_page + 1
            /\ char' = "b" =>
                  current_page' = IF current_page = 0 THEN 0 ELSE current_page - 1
            /\ char' = "q" <=> gpc' = "returned"
            /\ char' \notin {" ", "b"} => current_page' = current_page
            /\ total_pages' = total_pages]_vars

\* SPACE was pressed on the last page of several after moving there
C22_Witness ==
    /\ gpc = "paging"
    /\ total_pages > 2
    /\ current_page = total_pages - 1
    /\ char = " "

----------------------------------------------------------------------------
(* The chat history across the turns of the loop *)

IsPrefix(a, b) == Len(a) <= Len(b) /\ SubSeq(b, 1, Len(a)) = a

\* The commands that only show or set something
FrameCommands == {"help", "select_model", "reasoning", "history", "unknown command"}

\* C23: the chat history is kept between questions and emptied only by
\* /clear: /clear leaves the empty list, /help, /model, /reasoning, /history
\* and an unknown command leave the conversation as it was, and every other
\* turn keeps what was there and at most appends to it.
C23_HistoryKept ==
    [][/\ (cpc = "prompt" /\ effect' = "clear") => conversation' = <<>>
       /\ (cpc = "prompt" /\ effect' \in FrameCommands) => conversation' = conversation
       /\ ~(cpc = "prompt" /\ effect' = "clear") => IsPrefix(conversation, conversation')]_vars

\* A command other than /clear was handled while the history held a question
\* and its answer
C23_Witness ==
    /\ cpc = "handled"
    /\ effect \in FrameCommands
    /\ Len(conversation) >= 2

----------------------------------------------------------------------------
(* Location phrases of extract_search_keywords *)

\* The words of the normalized question, and whether the i-th qualifies
Words == original_words(question)
Qualifies(i) ==
    /\ IsUpper(SubSeq(Words[i], 1, 1))
    /\ Lower(Words[i]) \notin stopwords
    /\ Lower(Words[i]) \notin klocals.topic_words

\* The maximal runs a..b of consecutive qualifying words
MaximalRuns ==
    {r \in (1..Len(Words)) \X (1..Len(Words)) :
        /\ r[1] <= r[2]
        /\ \A i \in r[1]..r[2] : Qualifies(i)
        /\ r[1] = 1 \/ ~Qualifies(r[1] - 1)
        /\ r[2] = Len(Words) \/ ~Qualifies(r[2] + 1)}

LocationSet == {klocals.locations[i] : i \in 1..Len(klocals.locations)}

\* C24: a word belongs to a location phrase exactly if its first character
\* is uppercase and its lower-cased form is neither a stopword nor in the
\* topic's exclusion set; the phrases are the maximal runs of consecutive
\* such words, joined with single spaces, so that a comma or any other word
\* ends a phrase.
C24_LocationPhrases ==
    KwReturned =>
        LocationSet = {Join(SubSeq(Words, r[1], r[2]), " ") : r \in MaximalRuns}

\* Two phrases were found, one of them of two words, in a question with a topic
C24_Witness ==
    /\ KwReturned
    /\ klocals.topic_prefix # ""
    /\ Len(klocals.locations) >= 2
    /\ \E i \in 1..Len(klocals.locations) : Contains(klocals.locations[i], " ")

\* C25: the list of location phrases has no duplicates and no empty entries
\* and keeps the phrases in the order of their first occurrence; a question
\* that names one location several times has exactly one location phrase.
C25_DistinctInOrder ==
    KwReturned =>
        LET locs == klocals.locations
            found == ScannedPhrases(question)
        IN /\ \A i, j \in 1..Len(locs) : i # j => locs[i] # locs[j]
           /\ \A i \in 1..Len(locs) : Strip(locs[i]) # ""
           /\ LocationSet = PhraseSet(question)
           /\ \A i, j \in 1..Len(locs) :
                 i < j => FirstIndex(found, locs[i]) < FirstIndex(found, locs[j])
           /\ Cardinality(PhraseSet(question)) = 1 =>
                 /\ Len(locs) = 1
                 /\ klocals.topic_prefix # "" => Len(queries) = 1

\* One location was named more than once in a question with a topic
C25_Witness ==
    /\ KwReturned
    /\ Len(ScannedPhrases(question)) >= 2
    /\ Len(klocals.locations) = 1
    /\ klocals.topic_prefix # ""
    /\ Len(queries) = 1

\* The i-th word holds a trigger inside a longer word
HoldsTrigger(i) ==
    \E t \in WeatherTriggers \cup NewsTriggers \cup PriceTriggers :
        Contains(Lower(Words[i]), t) /\ Lower(Words[i]) # t

\* The words of the location phrases
LocationWords ==
    UNION {{Split(loc)[k] : k \in 1..Len(Split(loc))} : loc \in LocationSet}

\* C26: a topic is recognized as soon as a trigger occurs anywhere in the
\* lower-cased question, also inside a longer word only, while the exclusion
\* set is compared with whole words: a capitalized longer word holding a
\* trigger, itself neither a stopword nor in the exclusion set, is a word of
\* a location phrase.
C26_SubstringTopic ==
    KwReturned =>
        /\ klocals.topic_prefix # "" <=>
              (MatchesWeather(question) \/ MatchesNews(question) \/ MatchesPrice(question))
        /\ \A i \in 1..Len(Words) :
              (/\ HoldsTrigger(i)
               /\ IsUpper(SubSeq(Words[i], 1, 1))
               /\ Lower(Words[i]) \notin stopwords
               /\ Lower(Words[i]) \notin klocals.topic_words)
              => Words[i] \in LocationWords

\* The only trigger of the question is inside a longer capitalized word,
\* which became part of a location phrase
C26_Witness ==
    /\ KwReturned
    /\ klocals.topic_prefix # ""
    /\ \A i \in 1..Len(Words) :
          Lower(Words[i]) \notin WeatherTriggers \cup NewsTriggers \cup PriceTriggers
    /\ \E i \in 1..Len(Words) : HoldsTrigger(i) /\ Words[i] \in LocationWords

----------------------------------------------------------------------------
(* chat_completion and the conversation *)

\* The request failed: the caller got an error text, not a complete reply
Failed(text) == Contains(text, ApiErrorText) \/ Contains(text, RequestErrorText)

\* C27: chat_completion appends the user message, with the search results
\* when there are any, and after it the assistant reply only when the stream
\* was read to its end with status 200; on a non-200 status or a request
\* exception it appends no assistant message and keeps the user message, so
\* that the conversation grows by exactly one user entry.
C27_UserKeptOnFailure ==
    [][cpc = "call" =>
          LET n == Len(conversation)
          IN /\ Len(conversation') > n
             /\ SubSeq(conversation', 1, n) = conversation
             /\ conversation'[n + 1].role = "user"
             /\ StartsWith(conversation'[n + 1].content, user_input)
             /\ (search_log' = <<>> \/ ~Usable(ws_result')) =>
                    conversation'[n + 1].content = user_input
             /\ (search_log' # <<>> /\ Usable(ws_result')) =>
                    Contains(conversation'[n + 1].content, ws_result')
             /\ Failed(response') => Len(conversation') = n + 1
             /\ ~Failed(response') =>
                    /\ Len(conversation') = n + 2
                    /\ conversation'[n + 2] = [role |-> "assistant", content |-> response']]_vars

\* After a failed request the conversation holds two user messages in a row
C27_Witness ==
    /\ cpc = "handled"
    /\ Failed(response)
    /\ Len(conversation) = 2
    /\ conversation[1].role = "user"
    /\ conversation[2].role = "user"

----------------------------------------------------------------------------
(* process_pdf: when the collection is written *)

\* process_pdf has ended, by a return or by the exception of collection.add
PdfEnded == ppc \in {"done", "raised"}

\* C28: process_pdf adds nothing to the collection when the extracted text is
\* empty or get_embeddings returns an empty list; otherwise it calls
\* collection.add exactly once, after chunking and embedding have completed.
C28_AddOnce ==
    /\ add_calls <= 1
    /\ add_calls = 1 => (PdfEnded /\ pc = "returned" /\ chunks # <<>> /\ embeddings # <<>>)
    /\ (PdfEnded /\ (tokens = <<>> \/ embeddings = <<>>)) =>
           (add_calls = 0 /\ collection = <<>>)
    /\ (PdfEnded /\ tokens # <<>> /\ embeddings # <<>>) => add_calls = 1

\* Both early returns and the one call of collection.add are reachable; this
\* is the call, made for a text of several chunks
C28_Witness ==
    /\ ppc = "done"
    /\ add_calls = 1
    /\ Len(chunks) >= 2
    /\ Len(collection) = Len(chunks)

====
